---- MODULE Spec2Model ----
(***************************************************************************)
(* Import pipeline of databridge: ImportTab.start_import starts an         *)
(* ImportWorker whose run() wires CsvStream -> Transformer ->              *)
(* ClickHouseUploader.insert_parallel and reports through the Qt signals   *)
(* progress / finished / failed, which ImportTab's slots consume.          *)
(*                                                                         *)
(* business_logic (CsvStream, Transformer, ClickHouseUploader) is not part *)
(* of src/; those parts follow sections 4.1, 4.2, 4.4 and 5 of the         *)
(* specification.                                                          *)
(***************************************************************************)
EXTENDS Integers, Sequences, FiniteSets, TLC

\* ---------------------------------------------------------------- bounds
MaxRows == 3        \* data rows in the source file: 0..MaxRows
MaxBatch == 2       \* batch_size: 1..MaxBatch (spin_batch, scaled down)
MaxWorkers == 2     \* workers: 1..MaxWorkers (spin_workers, scaled down)
QueueCap == 1       \* capacity of the loader's bounded queue
MaxText == 2        \* characters typed into the custom delimiter field
NumTargets == 2     \* rows of the mapping table (ClickHouse columns)
MaxPreviewRows == 2 \* rows of the batch a preview transforms

\* ------------------------------------------------------------- constants
RowKinds == {"ok", "malformed", "reject"}
NoError == [cls |-> "none", msg |-> [text |-> "", batch |-> 0]]
NoBatch == [id |-> 0, cols |-> <<>>, rows |-> <<>>]
Idle == [st |-> "idle", batch |-> NoBatch]
MappedCols == <<"id", "full_name">>

VARIABLES
    csv_path,      \* ImportTab.csv_path ("" = no file picked)
    table,         \* settings_tab.conn_params()["table"]
    file,          \* the source rows: file[i] is the kind of data row i
    batch_size,    \* spin_batch.value()
    workers,       \* spin_workers.value()
    configOK,      \* whether Transformer(mapping, filters, statics) validates
    columns,       \* the output column list the Transformer produces
    dlg,           \* self.progress: "none" | "shown" | "hidden" | "closed"
    wasCanceled,   \* QProgressDialog.wasCanceled()
    label,         \* total last shown by on_progress (-1: none yet)
    msgBox,        \* terminal message boxes shown, in order
    pc,            \* ImportWorker.run position
    ret,           \* outcome of insert_parallel (or of construction)
    emitted,       \* signals emitted by the worker, in order
    delivered,     \* how many of them the GUI thread has dispatched
    filePos,       \* CsvStream: next data row to read
    exhausted,     \* the batches() generator has ended
    rawBatches,    \* history: the batches iter_rows has yielded
    yielded,       \* history: the (cols, data) pairs batches() has yielded
    queue,         \* loader: bounded queue of batches
    wstate,        \* loader: per worker, idle or inserting a batch
    counter,       \* loader: aggregate inserted-row counter
    firstError,    \* loader: first-error slot
    calls,         \* history: bulk insert calls issued
    acked,         \* history: acknowledged inserts
    lastReported,  \* loader: counter value at the previous progress report
    combo_delimiter,        \* combo_delimiter.currentText()
    line_custom_delimiter,  \* line_custom_delimiter.text()
    reader,        \* the delimiter the last CsvStream was constructed with
    tbl,           \* the mapping table: per row label, checked csv columns,
                   \* static text
    mapping,       \* self.mapping (a dict, in insertion order)
    static_values, \* self.static_values (a dict, in insertion order)
    csv_rows,      \* the first rows of the file, as a preview reads them
    previewOut     \* what the last preview got from transform_batch

guiVars == <<csv_path, table, dlg, wasCanceled, label, msgBox, delivered>>
cfgVars == <<file, batch_size, workers, configOK, columns>>
srcVars == <<filePos, exhausted, rawBatches, yielded>>
loadVars == <<queue, wstate, counter, firstError, calls, acked,
              lastReported>>
tabVars == <<combo_delimiter, line_custom_delimiter, reader, tbl, mapping,
             static_values, csv_rows, previewOut>>
vars == <<guiVars, cfgVars, srcVars, loadVars, pc, ret, emitted, tabVars>>

Workers == 1..workers

\* ------------------------------------------------------------ pure parts
RECURSIVE SumRows(_)
SumRows(S) ==
    IF S = {} THEN 0
    ELSE LET a == CHOOSE x \in S : TRUE
         IN (IF a.ok THEN a.n ELSE 0) + SumRows(S \ {a})

RECURSIVE Concat(_)
Concat(ss) == IF ss = <<>> THEN <<>> ELSE Head(ss) \o Concat(Tail(ss))

\* CsvStream.iter_rows: collect rows until batch_size well-formed rows are
\* held or the file ends; a malformed row is skipped.
RECURSIVE ReadRows(_, _, _)
ReadRows(pos, acc, B) ==
    IF pos > Len(file) \/ Len(acc) = B
    THEN [rows |-> acc, pos |-> pos]
    ELSE IF file[pos] = "malformed"
         THEN ReadRows(pos + 1, acc, B)
         ELSE ReadRows(pos + 1, Append(acc, pos), B)

\* Transformer.transform_batch: a rejected row is dropped whole.
transform_batch(csv_batch) ==
    [cols |-> columns,
     data |-> SelectSeq(csv_batch, LAMBDA r : file[r] # "reject")]

\* An exception is its class and its message; str(e) is the message alone.
ConfigError == [cls |-> "ConfigError",
                msg |-> [text |-> "invalid configuration", batch |-> 0]]
StoreWriteError(id) == [cls |-> "StoreWriteError",
                        msg |-> [text |-> "batch rejected", batch |-> id]]
Str(e) == e.msg

\* Variant of progress_cb: the two arguments of emit swapped.
progress_cb_swapped(n, r) == [kind |-> "progress", total |-> r, rate |-> n]

\* progress_cb = lambda n, r: self.progress.emit(n, r)
progress_cb(n, r) == [kind |-> "progress", total |-> n, rate |-> r]

\* -------------------------------------------------- ImportTab: pure parts
\* A string is the sequence of its characters.
\* The items of combo_delimiter, in the order they are added.
DelimiterItems == <<"comma", "semicolon", "tab", "pipe", "colon", "custom">>

\* delimiter_map of get_delimiter ("TAB" stands for the tab character).
delimiter_map ==
    [comma |-> <<",">>, semicolon |-> <<";">>, tab |-> <<"TAB">>,
     pipe |-> <<"|">>, colon |-> <<":">>]

\* get_delimiter
get_delimiter ==
    IF combo_delimiter = "custom"
    THEN IF line_custom_delimiter # <<>> THEN line_custom_delimiter
         ELSE <<",">>
    ELSE IF combo_delimiter \in DOMAIN delimiter_map
         THEN delimiter_map[combo_delimiter]
         ELSE <<",">>

NotOpened == [opened |-> FALSE, delimiter |-> <<>>]
\* CsvStream(self.csv_path, delimiter=delimiter)
CsvStream(delimiter) == [opened |-> TRUE, delimiter |-> delimiter]

\* The ClickHouse columns of the target table, in position order, the csv
\* headers, and the values a csv field may hold.
ChColumns == <<"id", "full_name", "city", "zip">>
Headers == <<"c1", "c2">>
Values == {<<"a">>, <<"X">>}
ConstTexts == {<<>>, <<" ">>, <<"X", " ">>}
RawRows == [{Headers[i] : i \in DOMAIN Headers} -> Values]

\* checked_items(): the checked csv columns, a sub-list of the headers.
CheckedLists == {<<>>, <<"c1">>, <<"c2">>, <<"c1", "c2">>}

\* str.strip()
RECURSIVE Strip(_)
Strip(t) ==
    IF t = <<>> THEN <<>>
    ELSE IF Head(t) = " " THEN Strip(Tail(t))
    ELSE IF t[Len(t)] = " " THEN Strip(SubSeq(t, 1, Len(t) - 1))
    ELSE t

\* A dict in insertion order is a sequence of (key, value) pairs.
Keys(d) == [i \in DOMAIN d |-> d[i].k]
KeySet(d) == {d[i].k : i \in DOMAIN d}
Get(d, key) == d[CHOOSE i \in DOMAIN d : d[i].k = key].v
\* d[key] = val: an existing key keeps its place.
DictSet(d, key, val) ==
    IF key \in KeySet(d)
    THEN [i \in DOMAIN d |-> IF d[i].k = key THEN [k |-> key, v |-> val]
                              ELSE d[i]]
    ELSE Append(d, [k |-> key, v |-> val])

\* Variant of collect_mapping: the static text is read only for a row
\* without checked csv columns (elif instead of if).
RECURSIVE collect_mapping_elif(_, _, _)
collect_mapping_elif(r, m, st) ==
    IF r > Len(tbl) THEN [mapping |-> m, statics |-> st]
    ELSE LET ch_col == Head(tbl[r].label)
             csv_cols == tbl[r].csv_cols
             const_val == Strip(tbl[r].const)
             m2 == IF csv_cols # <<>> THEN DictSet(m, ch_col, csv_cols)
                   ELSE m
             st2 == IF csv_cols = <<>> /\ const_val # <<>>
                    THEN DictSet(st, ch_col, const_val)
                    ELSE st
         IN collect_mapping_elif(r + 1, m2, st2)

\* Variant of collect_mapping: every row is registered in the mapping, also
\* one without checked csv columns.
RECURSIVE collect_mapping_all_rows(_, _, _)
collect_mapping_all_rows(r, m, st) ==
    IF r > Len(tbl) THEN [mapping |-> m, statics |-> st]
    ELSE LET ch_col == Head(tbl[r].label)
             csv_cols == tbl[r].csv_cols
             const_val == Strip(tbl[r].const)
             m2 == DictSet(m, ch_col, csv_cols)
             st2 == IF const_val # <<>> THEN DictSet(st, ch_col, const_val)
                    ELSE st
         IN collect_mapping_all_rows(r + 1, m2, st2)

\* collect_mapping: the loop over the rows of the table, from row r on.
\* ch_col is the first word of the label; the static text is stripped.
RECURSIVE collect_mapping(_, _, _)
collect_mapping(r, m, st) ==
    IF r > Len(tbl) THEN [mapping |-> m, statics |-> st]
    ELSE LET ch_col == Head(tbl[r].label)
             csv_cols == tbl[r].csv_cols
             const_val == Strip(tbl[r].const)
             m2 == IF csv_cols # <<>> THEN DictSet(m, ch_col, csv_cols)
                   ELSE m
             st2 == IF const_val # <<>> THEN DictSet(st, ch_col, const_val)
                    ELSE st
         IN collect_mapping(r + 1, m2, st2)

\* Fan-in: the values of the listed source columns joined by one space.
RECURSIVE FanIn(_, _)
FanIn(row, srcs) ==
    IF srcs = <<>> THEN <<>>
    ELSE IF Len(srcs) = 1 THEN row[srcs[1]]
    ELSE row[srcs[1]] \o <<" ">> \o FanIn(row, Tail(srcs))

\* Transformer: the output columns are the mapping keys in registration
\* order, then the override-only columns.
OutputColumns(m, st) ==
    Keys(m) \o SelectSeq(Keys(st), LAMBDA c : c \notin KeySet(m))

\* Transformer.transform_batch on rows with values, without filter rules:
\* a static override replaces the mapped value of its column.
transform_values(m, st, batch) ==
    LET cols == OutputColumns(m, st)
    IN [cols |-> cols,
        data |-> [n \in DOMAIN batch |->
                    [i \in DOMAIN cols |->
                        IF cols[i] \in KeySet(st) THEN Get(st, cols[i])
                        ELSE FanIn(batch[n], Get(m, cols[i]))]]]

NoOut == [shown |-> FALSE, cols |-> <<>>, data |-> <<>>, batch |-> <<>>]

\* The widgets as ImportTab.__init__ leaves them.
TabInit ==
    /\ combo_delimiter = DelimiterItems[1]
    /\ line_custom_delimiter = <<>>
    /\ reader = NotOpened
    /\ tbl = <<>>
    /\ mapping = <<>>
    /\ static_values = <<>>
    /\ csv_rows = <<>>
    /\ previewOut = NoOut

\* ------------------------------------------------------------------ Init
Init ==
    /\ csv_path \in {"", "data.csv"}
    /\ table \in {"", "events"}
    /\ \E R \in 0..MaxRows : file \in [1..R -> RowKinds]
    /\ batch_size \in 1..MaxBatch
    /\ workers \in 1..MaxWorkers
    /\ configOK \in BOOLEAN
    /\ columns \in {<<>>, MappedCols}
    /\ dlg = "none"
    /\ wasCanceled = FALSE
    /\ label = -1
    /\ msgBox = <<>>
    /\ pc = "idle"
    /\ ret = [kind |-> "none"]
    /\ emitted = <<>>
    /\ delivered = 0
    /\ filePos = 1
    /\ exhausted = FALSE
    /\ rawBatches = <<>>
    /\ yielded = <<>>
    /\ queue = <<>>
    /\ wstate = [w \in 1..MaxWorkers |-> Idle]
    /\ counter = 0
    /\ firstError = NoError
    /\ calls = <<>>
    /\ acked = {}
    /\ lastReported = 0
    /\ TabInit

\* ------------------------------------------------------------- ImportTab
\* start_import: returns early without a file or a table; otherwise shows
\* the progress dialog and starts the worker thread.
start_import ==
    /\ pc = "idle"
    /\ csv_path # ""
    /\ table # ""
    /\ dlg' = "shown"
    /\ pc' = "started"
    /\ UNCHANGED <<tabVars,
                   csv_path, table, wasCanceled, label, msgBox, delivered,
                   cfgVars, srcVars, loadVars, ret, emitted>>

\* The user presses the dialog's cancel button.  start_import connects
\* nothing to the dialog's canceled signal: the dialog hides and remembers
\* the cancellation, the worker is not told.
cancel ==
    /\ dlg = "shown"
    /\ dlg' = "hidden"
    /\ wasCanceled' = TRUE
    /\ UNCHANGED <<tabVars, csv_path, table, label, msgBox, delivered,
                   cfgVars, srcVars, loadVars, pc, ret, emitted>>

Pending == delivered < Len(emitted)
NextSignal == emitted[delivered + 1]

on_progress ==
    /\ Pending
    /\ NextSignal.kind = "progress"
    /\ label' = NextSignal.total
    /\ delivered' = delivered + 1
    /\ UNCHANGED <<tabVars, csv_path, table, dlg, wasCanceled, msgBox,
                   cfgVars, srcVars, loadVars, pc, ret, emitted>>

on_finished ==
    /\ Pending
    /\ NextSignal.kind = "finished"
    /\ dlg' = "closed"
    /\ msgBox' = Append(msgBox, [icon |-> "information",
                                 total |-> NextSignal.total])
    /\ delivered' = delivered + 1
    /\ UNCHANGED <<tabVars, csv_path, table, wasCanceled, label,
                   cfgVars, srcVars, loadVars, pc, ret, emitted>>

on_failed ==
    /\ Pending
    /\ NextSignal.kind = "failed"
    /\ dlg' = "closed"
    /\ msgBox' = Append(msgBox, [icon |-> "critical", msg |-> NextSignal.msg])
    /\ delivered' = delivered + 1
    /\ UNCHANGED <<tabVars, csv_path, table, wasCanceled, label,
                   cfgVars, srcVars, loadVars, pc, ret, emitted>>

\* ---------------------------------------------------- ImportWorker.run
\* Variant of run_construct: the configuration is not validated at
\* construction and the load is entered regardless.
run_construct_lazy ==
    /\ pc = "started"
    /\ pc' = "loading"
    /\ ret' = ret
    /\ UNCHANGED <<tabVars, guiVars, cfgVars, srcVars, loadVars, emitted>>

\* CsvStream(...), Transformer(...), ClickHouseUploader(...): construction.
\* An invalid configuration raises before insert_parallel is entered.
run_construct ==
    /\ pc = "started"
    /\ IF configOK
       THEN /\ pc' = "loading"
            /\ ret' = ret
       ELSE /\ pc' = "returned"
            /\ ret' = [kind |-> "raise", exc |-> ConfigError]
    /\ UNCHANGED <<tabVars, guiVars, cfgVars, srcVars, loadVars, emitted>>

\* Variant of batches: the generator ends at the first batch it would skip.
RECURSIVE batches_break(_, _)
batches_break(pos, raws) ==
    LET rd == ReadRows(pos, <<>>, batch_size)
        out == transform_batch(rd.rows)
    IN IF rd.rows = <<>>
       THEN [done |-> TRUE, pos |-> rd.pos, raws |-> raws,
             cols |-> <<>>, data |-> <<>>]
       ELSE IF out.cols # <<>> /\ out.data # <<>>
            THEN [done |-> FALSE, pos |-> rd.pos,
                  raws |-> Append(raws, rd.rows),
                  cols |-> out.cols, data |-> out.data]
            ELSE [done |-> TRUE, pos |-> rd.pos,
                  raws |-> Append(raws, rd.rows),
                  cols |-> <<>>, data |-> <<>>]

\* Variant of batches: every transformed batch is yielded, empty or not.
batches_no_guard(pos, raws) ==
    LET rd == ReadRows(pos, <<>>, batch_size)
        out == transform_batch(rd.rows)
    IN IF rd.rows = <<>>
       THEN [done |-> TRUE, pos |-> rd.pos, raws |-> raws,
             cols |-> <<>>, data |-> <<>>]
       ELSE [done |-> FALSE, pos |-> rd.pos,
             raws |-> Append(raws, rd.rows),
             cols |-> out.cols, data |-> out.data]

\* Variant of batches: a batch is yielded only if none of its rows was
\* dropped, otherwise the whole batch is skipped.
RECURSIVE batches_drop_partial(_, _)
batches_drop_partial(pos, raws) ==
    LET rd == ReadRows(pos, <<>>, batch_size)
        out == transform_batch(rd.rows)
    IN IF rd.rows = <<>>
       THEN [done |-> TRUE, pos |-> rd.pos, raws |-> raws,
             cols |-> <<>>, data |-> <<>>]
       ELSE IF out.cols # <<>> /\ out.data = rd.rows
            THEN [done |-> FALSE, pos |-> rd.pos,
                  raws |-> Append(raws, rd.rows),
                  cols |-> out.cols, data |-> out.data]
            ELSE batches_drop_partial(rd.pos, Append(raws, rd.rows))

\* def batches(): one next() of the generator, started at file position pos
\* with raws the csv batches read so far.  It reads csv batches until one
\* transforms to non-empty cols and data, which it yields; a batch that does
\* not is skipped; the generator ends when iter_rows ends.
RECURSIVE batches(_, _)
batches(pos, raws) ==
    LET rd == ReadRows(pos, <<>>, batch_size)
        out == transform_batch(rd.rows)
    IN IF rd.rows = <<>>
       THEN [done |-> TRUE, pos |-> rd.pos, raws |-> raws,
             cols |-> <<>>, data |-> <<>>]
       ELSE IF out.cols # <<>> /\ out.data # <<>>
            THEN [done |-> FALSE, pos |-> rd.pos,
                  raws |-> Append(raws, rd.rows),
                  cols |-> out.cols, data |-> out.data]
            ELSE batches(rd.pos, Append(raws, rd.rows))

\* Variant of producer_pull: the producer does not wait for room in the queue.
producer_pull_unbounded ==
    /\ pc = "loading"
    /\ ~exhausted
    /\ firstError = NoError
    /\ LET nx == batches(filePos, rawBatches)
           item == [id |-> Len(yielded) + 1, cols |-> nx.cols,
                    rows |-> nx.data]
       IN /\ filePos' = nx.pos
          /\ rawBatches' = nx.raws
          /\ exhausted' = nx.done
          /\ IF nx.done
             THEN UNCHANGED <<yielded, queue>>
             ELSE /\ yielded' = Append(yielded, item)
                  /\ queue' = Append(queue, item)
    /\ UNCHANGED <<tabVars,
                   guiVars, cfgVars, wstate, counter, firstError, calls,
                   acked, lastReported, pc, ret, emitted>>

\* The loader's producer: blocked while the queue is full, stopped once an
\* error is recorded; otherwise it pulls the next batch from batches() and
\* enqueues it.
producer_pull ==
    /\ pc = "loading"
    /\ ~exhausted
    /\ firstError = NoError
    /\ Len(queue) < QueueCap
    /\ LET nx == batches(filePos, rawBatches)
           item == [id |-> Len(yielded) + 1, cols |-> nx.cols,
                    rows |-> nx.data]
       IN /\ filePos' = nx.pos
          /\ rawBatches' = nx.raws
          /\ exhausted' = nx.done
          /\ IF nx.done
             THEN UNCHANGED <<yielded, queue>>
             ELSE /\ yielded' = Append(yielded, item)
                  /\ queue' = Append(queue, item)
    /\ UNCHANGED <<tabVars,
                   guiVars, cfgVars, wstate, counter, firstError, calls,
                   acked, lastReported, pc, ret, emitted>>

\* Variant of worker_take: a worker keeps taking batches after an error.
worker_take_after_error(w) ==
    /\ pc = "loading"
    /\ wstate[w].st = "idle"
    /\ queue # <<>>
    /\ wstate' = [wstate EXCEPT ![w] = [st |-> "busy", batch |-> Head(queue)]]
    /\ queue' = Tail(queue)
    /\ calls' = Append(calls, [id |-> Head(queue).id, w |-> w,
                               rows |-> Head(queue).rows])
    /\ UNCHANGED <<tabVars,
                   guiVars, cfgVars, srcVars, counter, firstError, acked,
                   lastReported, pc, ret, emitted>>

\* Variant of worker_take: the batch taken is left in the queue.
worker_take_no_pop(w) ==
    /\ pc = "loading"
    /\ firstError = NoError
    /\ wstate[w].st = "idle"
    /\ queue # <<>>
    /\ wstate' = [wstate EXCEPT ![w] = [st |-> "busy", batch |-> Head(queue)]]
    /\ calls' = Append(calls, [id |-> Head(queue).id, w |-> w,
                               rows |-> Head(queue).rows])
    /\ UNCHANGED <<tabVars,
                   guiVars, cfgVars, srcVars, queue, counter, firstError,
                   acked, lastReported, pc, ret, emitted>>

\* A free worker takes the head of the queue and issues one bulk insert.
worker_take(w) ==
    /\ pc = "loading"
    /\ firstError = NoError
    /\ wstate[w].st = "idle"
    /\ queue # <<>>
    /\ wstate' = [wstate EXCEPT ![w] = [st |-> "busy", batch |-> Head(queue)]]
    /\ queue' = Tail(queue)
    /\ calls' = Append(calls, [id |-> Head(queue).id, w |-> w,
                               rows |-> Head(queue).rows])
    /\ UNCHANGED <<tabVars,
                   guiVars, cfgVars, srcVars, counter, firstError, acked,
                   lastReported, pc, ret, emitted>>

\* Progress reporting: when the reporting interval has elapsed (due), the
\* loader calls progress_cb with the cumulative total and the delta since
\* the previous report.
report(due, total) ==
    IF due
    THEN /\ emitted' = Append(emitted, progress_cb(total, total - lastReported))
         /\ lastReported' = total
    ELSE UNCHANGED <<emitted, lastReported>>

\* Variant of worker_ack_ok: the read-modify-write of the counter is not
\* atomic, and the update is lost while another worker is inserting.
worker_ack_ok_lost(w) ==
    /\ pc = "loading"
    /\ wstate[w].st = "busy"
    /\ counter' = IF \E v \in Workers : v # w /\ wstate[v].st = "busy"
                  THEN counter
                  ELSE counter + Len(wstate[w].batch.rows)
    /\ acked' = acked \cup {[id |-> wstate[w].batch.id, ok |-> TRUE,
                             n |-> Len(wstate[w].batch.rows)]}
    /\ wstate' = [wstate EXCEPT ![w] = Idle]
    /\ \E due \in BOOLEAN : report(due, counter')
    /\ UNCHANGED <<tabVars, guiVars, cfgVars, srcVars, queue, firstError, calls,
                   pc, ret>>

\* The store acknowledges the insert: the counter grows atomically, and if
\* the reporting interval has elapsed the new total is reported.
worker_ack_ok(w) ==
    /\ pc = "loading"
    /\ wstate[w].st = "busy"
    /\ counter' = counter + Len(wstate[w].batch.rows)
    /\ acked' = acked \cup {[id |-> wstate[w].batch.id, ok |-> TRUE,
                             n |-> Len(wstate[w].batch.rows)]}
    /\ wstate' = [wstate EXCEPT ![w] = Idle]
    /\ \E due \in BOOLEAN : report(due, counter')
    /\ UNCHANGED <<tabVars, guiVars, cfgVars, srcVars, queue, firstError, calls,
                   pc, ret>>

\* The store rejects the insert: no retry; the first error is kept.
worker_ack_fail(w) ==
    /\ pc = "loading"
    /\ wstate[w].st = "busy"
    /\ firstError' = IF firstError = NoError
                     THEN StoreWriteError(wstate[w].batch.id)
                     ELSE firstError
    /\ acked' = acked \cup {[id |-> wstate[w].batch.id, ok |-> FALSE,
                             n |-> Len(wstate[w].batch.rows)]}
    /\ wstate' = [wstate EXCEPT ![w] = Idle]
    /\ UNCHANGED <<tabVars, guiVars, cfgVars, srcVars, queue, counter, calls,
                   lastReported, pc, ret, emitted>>

AllIdle == \A w \in 1..MaxWorkers : wstate[w].st = "idle"

\* insert_parallel returns (or raises the first error) once the producer
\* has stopped and no insert is in flight.
insert_parallel_return ==
    /\ pc = "loading"
    /\ AllIdle
    /\ \/ firstError # NoError
       \/ exhausted /\ queue = <<>>
    /\ ret' = IF firstError = NoError
              THEN [kind |-> "return", total |-> counter]
              ELSE [kind |-> "raise", exc |-> firstError]
    /\ pc' = "returned"
    /\ UNCHANGED <<tabVars, guiVars, cfgVars, srcVars, loadVars, emitted>>

\* Variant of run_emit: finished is emitted without waiting for
\* insert_parallel to return.
run_emit_early ==
    /\ pc \in {"loading", "returned"}
    /\ emitted' = Append(emitted,
                    IF ret.kind = "raise"
                    THEN [kind |-> "failed", msg |-> Str(ret.exc)]
                    ELSE [kind |-> "finished", total |-> counter])
    /\ pc' = "done"
    /\ UNCHANGED <<tabVars, guiVars, cfgVars, srcVars, loadVars, ret>>

\* Variant of run_emit: the exception is swallowed and the partial total is
\* reported as a success.
run_emit_swallow ==
    /\ pc = "returned"
    /\ emitted' = Append(emitted, [kind |-> "finished", total |-> counter])
    /\ pc' = "done"
    /\ UNCHANGED <<tabVars, guiVars, cfgVars, srcVars, loadVars, ret>>

\* self.finished.emit(total)  /  except Exception as e: self.failed.emit(str(e))
run_emit ==
    /\ pc = "returned"
    /\ emitted' = Append(emitted,
                    IF ret.kind = "return"
                    THEN [kind |-> "finished", total |-> ret.total]
                    ELSE [kind |-> "failed", msg |-> Str(ret.exc)])
    /\ pc' = "done"
    /\ UNCHANGED <<tabVars, guiVars, cfgVars, srcVars, loadVars, ret>>

Next ==
    \/ start_import
    \/ cancel
    \/ on_progress
    \/ on_finished
    \/ on_failed
    \/ run_construct
    \/ producer_pull
    \/ \E w \in Workers : worker_take(w)
    \/ \E w \in Workers : worker_ack_ok(w)
    \/ \E w \in Workers : worker_ack_fail(w)
    \/ insert_parallel_return
    \/ run_emit

Spec == Init /\ [][Next]_vars

\* A step of the import thread, of the loader's producer and workers, or of
\* the store answering an insert.
PipelineStep ==
    \/ run_construct
    \/ producer_pull
    \/ \E w \in Workers : worker_take(w)
    \/ \E w \in Workers : worker_ack_ok(w)
    \/ \E w \in Workers : worker_ack_fail(w)
    \/ insert_parallel_return
    \/ run_emit

\* The GUI event loop dispatching a queued signal to its slot.
GuiDispatch == on_progress \/ on_finished \/ on_failed

\* The threads run and the store answers every insert, so the pipeline
\* takes a step whenever one is possible; the GUI event loop dispatches
\* every queued signal.  Nothing obliges the user to cancel.
Fairness == WF_vars(PipelineStep) /\ WF_vars(GuiDispatch)

FairSpec == Spec /\ Fairness

\* ------------------------------------------- ImportTab: file and mapping
\* What the handlers below leave alone: the import itself.
runVars == <<table, dlg, wasCanceled, label, msgBox, delivered, cfgVars,
             srcVars, loadVars, pc, ret, emitted>>

\* No import has been started and none is configured.
IdlePipeline ==
    /\ csv_path = ""
    /\ table = "events"
    /\ file = <<>>
    /\ batch_size = 1
    /\ workers = 1
    /\ configOK = TRUE
    /\ columns = <<>>
    /\ dlg = "none"
    /\ wasCanceled = FALSE
    /\ label = -1
    /\ msgBox = <<>>
    /\ pc = "idle"
    /\ ret = [kind |-> "none"]
    /\ emitted = <<>>
    /\ delivered = 0
    /\ filePos = 1
    /\ exhausted = FALSE
    /\ rawBatches = <<>>
    /\ yielded = <<>>
    /\ queue = <<>>
    /\ wstate = [w \in 1..MaxWorkers |-> Idle]
    /\ counter = 0
    /\ firstError = NoError
    /\ calls = <<>>
    /\ acked = {}
    /\ lastReported = 0

\* The user selects another item of combo_delimiter: on_delimiter_changed
\* shows or hides the custom field and, with a file picked, reloads the
\* headers with the new delimiter (auto_load_csv_headers).
on_delimiter_changed(item) ==
    /\ item # combo_delimiter
    /\ combo_delimiter' = item
    /\ line_custom_delimiter' = line_custom_delimiter
    /\ reader' = IF csv_path # "" THEN CsvStream(get_delimiter') ELSE reader
    /\ UNCHANGED <<csv_path, tbl, mapping, static_values, csv_rows,
                   previewOut, runVars>>

\* The custom field is a plain QLineEdit, visible while "custom" is
\* selected: the user types a character into it,
type_custom_delimiter(ch) ==
    /\ combo_delimiter = "custom"
    /\ Len(line_custom_delimiter) < MaxText
    /\ line_custom_delimiter' = Append(line_custom_delimiter, ch)
    /\ UNCHANGED <<csv_path, combo_delimiter, reader, tbl, mapping,
                   static_values, csv_rows, previewOut, runVars>>

\* or erases the last one.
erase_custom_delimiter ==
    /\ combo_delimiter = "custom"
    /\ line_custom_delimiter # <<>>
    /\ line_custom_delimiter' =
          SubSeq(line_custom_delimiter, 1, Len(line_custom_delimiter) - 1)
    /\ UNCHANGED <<csv_path, combo_delimiter, reader, tbl, mapping,
                   static_values, csv_rows, previewOut, runVars>>

\* pick_csv with a file chosen: the path is kept and the headers are loaded.
pick_csv ==
    /\ csv_path' = "data.csv"
    /\ reader' = CsvStream(get_delimiter)
    /\ UNCHANGED <<combo_delimiter, line_custom_delimiter, tbl, mapping,
                   static_values, csv_rows, previewOut, runVars>>

\* load_csv_headers: returns early without a file.
load_csv_headers ==
    /\ csv_path # ""
    /\ reader' = CsvStream(get_delimiter)
    /\ UNCHANGED <<csv_path, combo_delimiter, line_custom_delimiter, tbl,
                   mapping, static_values, csv_rows, previewOut, runVars>>

\* preview: returns early without a file; collects the mapping, opens the
\* file and transforms its first batch.
preview ==
    /\ csv_path # ""
    /\ LET c == collect_mapping(1, <<>>, <<>>)
       IN /\ mapping' = c.mapping
          /\ static_values' = c.statics
          /\ reader' = CsvStream(get_delimiter)
          /\ LET first_batch == csv_rows
                 t == transform_values(c.mapping, c.statics, first_batch)
             IN previewOut' = [shown |-> TRUE, cols |-> t.cols,
                               data |-> t.data, batch |-> first_batch]
    /\ UNCHANGED <<csv_path, combo_delimiter, line_custom_delimiter, tbl,
                   csv_rows, runVars>>

\* The choice of the delimiter, from the widgets as constructed.
DelimInit == IdlePipeline /\ TabInit

DelimNext ==
    \/ \E i \in DOMAIN DelimiterItems : on_delimiter_changed(DelimiterItems[i])
    \/ \E ch \in {";", "a"} : type_custom_delimiter(ch)
    \/ erase_custom_delimiter
    \/ pick_csv
    \/ load_csv_headers

DelimSpec == DelimInit /\ [][DelimNext]_vars

\* The mapping table after load_ch_columns and the user's edits: up to
\* NumTargets rows, each with its label, checked csv columns and static
\* text; the file holds up to MaxPreviewRows rows.
Tables ==
    UNION {[1..n -> [label : {<<"x">>}, csv_cols : CheckedLists,
                     const : ConstTexts]] : n \in 0..NumTargets}
Labelled(t) ==
    [r \in DOMAIN t |-> [t[r] EXCEPT !.label = <<ChColumns[r], "(String)">>]]

MapInit ==
    /\ IdlePipeline
    /\ combo_delimiter = DelimiterItems[1]
    /\ line_custom_delimiter = <<>>
    /\ reader = NotOpened
    /\ \E t \in Tables : tbl = Labelled(t)
    /\ mapping = <<>>
    /\ static_values = <<>>
    /\ csv_rows \in UNION {[1..n -> RawRows] : n \in 0..MaxPreviewRows}
    /\ previewOut = NoOut

MapNext == pick_csv \/ preview

MapSpec == MapInit /\ [][MapNext]_vars

TypeOK ==
    /\ pc \in {"idle", "started", "loading", "returned", "done"}
    /\ counter \in 0..MaxRows
    /\ delivered \in 0..Len(emitted)

\* ------------------------------------------------------------ vocabulary
Busy(w) == wstate[w].st = "busy"
Failed == firstError # NoError
Terminal(s) == s.kind \in {"finished", "failed"}
Terminals == {i \in DOMAIN emitted : Terminal(emitted[i])}
Progresses == {i \in DOMAIN emitted : emitted[i].kind = "progress"}
LastEmitted == emitted[Len(emitted)]
AckedIds == {a.id : a \in acked}
AllAcked == \A i \in DOMAIN calls : calls[i].id \in AckedIds
Positions(n) == [i \in 1..n |-> i]
FullRowCount == Cardinality({i \in DOMAIN file : file[i] = "ok"})
YieldedRows == Concat([i \in DOMAIN yielded |-> yielded[i].rows])
LoaderEntered == configOK /\ pc \in {"loading", "returned", "done"}

\* ------------------------------------------------------------------- C1
\* C1: the first failed insert is recorded in the first-error slot and is
\* never overwritten; once it is recorded no worker issues another insert
\* and the producer reads nothing more, while inserts in flight may still
\* be acknowledged.
C1_ShortCircuit ==
    /\ [](Failed <=> \E a \in acked : ~a.ok)
    /\ [](Failed => [id |-> firstError.msg.batch, ok |-> FALSE,
                     n |-> Len(yielded[firstError.msg.batch].rows)] \in acked)
    /\ [][Failed => /\ firstError' = firstError
                    /\ calls' = calls
                    /\ filePos' = filePos
                    /\ rawBatches' = rawBatches
                    /\ yielded' = yielded]_vars

\* A failure is recorded while another insert is in flight, a batch waits in
\* the queue and the source has more to give.
C1_Witness ==
    /\ Failed
    /\ \E w \in Workers : Busy(w)
    /\ queue # <<>>
    /\ ~exhausted

C3_Inv ==
    /\ Cardinality(Terminals) <= 1
    /\ pc = "done" <=> Cardinality(Terminals) = 1
    /\ Terminals # {} => Terminal(LastEmitted)
    /\ Len(msgBox) <= 1
    /\ msgBox # <<>> => /\ delivered = Len(emitted)
                        /\ (msgBox[1].icon = "critical"
                              <=> LastEmitted.kind = "failed")
    /\ (pc = "done" /\ \E a \in acked : ~a.ok)
          => /\ LastEmitted.kind = "failed"
             /\ counter < FullRowCount
    /\ (pc = "done" /\ ret.kind = "raise") => LastEmitted.kind = "failed"

\* C3: a load emits at most one terminal signal, a started load ends with
\* exactly one (finished or failed) and the GUI shows exactly one message
\* for it; a load with a failed insert ends with failed and has inserted
\* fewer rows than the full row count.
C3_OneTerminal ==
    /\ []C3_Inv
    /\ (pc = "started") ~> (pc = "done" /\ Len(msgBox) = 1)

\* A load with a failed insert and rows already committed has ended and its
\* failure has been shown.
C3_Witness ==
    /\ pc = "done"
    /\ \E a \in acked : ~a.ok
    /\ counter > 0
    /\ Len(msgBox) = 1

\* ------------------------------------------------------------------- C4
\* C4: the failed notification of a rejected batch carries the partial
\* total of rows committed.
C4_FailureCarriesTotal ==
    \A i \in DOMAIN emitted :
        (emitted[i].kind = "failed" /\ Failed)
            => "total" \in DOMAIN emitted[i] /\ emitted[i].total = counter

\* ------------------------------------------------------------------- C5
\* C5: once the user has cancelled, the producer reads no further batch and
\* no worker starts another insert.
C5_CancelStops ==
    [][wasCanceled => filePos' = filePos /\ calls' = calls]_vars

\* ------------------------------------------------------------------- C6
\* C6: the totals of successive progress signals never decrease, none
\* exceeds the rows inserted, what the GUI shows never exceeds it either,
\* and finished carries exactly the number of rows inserted.
C6_ProgressMonotone ==
    /\ \A i, j \in Progresses : i < j => emitted[i].total <= emitted[j].total
    /\ \A i \in Progresses : emitted[i].total <= counter
    /\ label <= counter
    /\ \A i \in DOMAIN emitted :
          emitted[i].kind = "finished"
             => /\ emitted[i].total = counter
                /\ emitted[i].total = SumRows(acked)
    /\ \A i \in DOMAIN msgBox :
          msgBox[i].icon = "information" => msgBox[i].total = counter

\* Two progress reports with growing totals, followed by finished.
C6_Witness ==
    /\ \E i, j \in Progresses :
          i < j /\ 0 < emitted[i].total /\ emitted[i].total < emitted[j].total
    /\ emitted # <<>>
    /\ LastEmitted.kind = "finished"
    /\ LastEmitted.total > emitted[1].total

C8_ExactlyOnce ==
    /\ \A i, j \in DOMAIN calls : calls[i].id = calls[j].id => i = j
    /\ \A i \in DOMAIN calls :
          /\ calls[i].id \in DOMAIN yielded
          /\ calls[i].rows = yielded[calls[i].id].rows
    /\ \A a, b \in acked : a.id = b.id => a = b
    /\ \A a \in acked : \E i \in DOMAIN calls : calls[i].id = a.id
    /\ \A w \in Workers : Busy(w) =>
          /\ wstate[w].batch.id \notin AckedIds
          /\ \E i \in DOMAIN calls : calls[i].id = wstate[w].batch.id
                                      /\ calls[i].w = w
    /\ ret.kind = "return" =>
          \A k \in DOMAIN yielded :
              /\ \E i \in DOMAIN calls : calls[i].id = k
              /\ [id |-> k, ok |-> TRUE, n |-> Len(yielded[k].rows)] \in acked

\* The second batch is acknowledged while the first, of two rows, is still
\* being inserted.
C8_Witness ==
    /\ \E w \in Workers : Busy(w) /\ wstate[w].batch.id = 1
                                  /\ Len(wstate[w].batch.rows) = 2
    /\ \E a \in acked : a.id = 2 /\ a.ok

\* ------------------------------------------------------------------- C9
ProducerBlocked ==
    /\ pc = "loading"
    /\ Len(queue) = QueueCap
    /\ ~exhausted
    /\ ~Failed

\* C9: the queue never holds more than its capacity, the producer reads
\* nothing while it is full, and a blocked producer is eventually unblocked
\* (or stopped by a failure).
C9_Backpressure ==
    /\ [](Len(queue) <= QueueCap)
    /\ [][Len(queue) >= QueueCap
            => filePos' = filePos /\ yielded' = yielded]_vars
    /\ ProducerBlocked ~> ~ProducerBlocked

\* The queue is full, every worker is inserting and the source has more.
C9_Witness ==
    /\ ProducerBlocked
    /\ \A w \in Workers : Busy(w)
    /\ filePos <= Len(file)

RowsOf(seq) == {seq[k] : k \in DOMAIN seq}
Increasing(seq) == \A k, l \in DOMAIN seq : k < l => seq[k] < seq[l]

\* C13: a rejected (or malformed) row is in no yielded batch and in no
\* insert call; the admitted rows of the part of the file read are yielded
\* in file order; a load fails only by a configuration or store error, and
\* a load that finishes has inserted every admitted row.
C13_RowErrorsLocal ==
    /\ \A i \in DOMAIN yielded : \A r \in RowsOf(yielded[i].rows) :
          file[r] = "ok"
    /\ \A i \in DOMAIN calls : \A r \in RowsOf(calls[i].rows) : file[r] = "ok"
    /\ Increasing(YieldedRows)
    /\ columns # <<>> =>
          RowsOf(YieldedRows) = {r \in 1..(filePos - 1) : file[r] = "ok"}
    /\ ret.kind = "raise" => ~configOK \/ \E a \in acked : ~a.ok
    /\ (ret.kind = "return" /\ columns # <<>>) => ret.total = FullRowCount

\* A load has finished although a batch lost a rejected row and the file had
\* a malformed row as well.
C13_Witness ==
    /\ pc = "done"
    /\ LastEmitted.kind = "finished"
    /\ LastEmitted.total >= 1
    /\ \E i \in DOMAIN rawBatches :
          /\ \E r \in RowsOf(rawBatches[i]) : file[r] = "reject"
          /\ \E r \in RowsOf(rawBatches[i]) : file[r] = "ok"
    /\ \E r \in DOMAIN file : file[r] = "malformed"

\* ------------------------------------------------------------------ C14
\* C14: with an invalid configuration nothing is read from the source,
\* nothing is queued or inserted, and the load ends with failed carrying
\* the configuration error, never with finished.
C14_ConfigErrorBeforeIO ==
    ~configOK =>
        /\ filePos = 1 /\ rawBatches = <<>> /\ yielded = <<>> /\ ~exhausted
        /\ queue = <<>> /\ calls = <<>> /\ acked = {} /\ counter = 0
        /\ pc # "loading"
        /\ \A i \in DOMAIN emitted :
              emitted[i] = [kind |-> "failed", msg |-> Str(ConfigError)]
        /\ pc = "done" => emitted # <<>>

\* A load over a non-empty file has ended with the configuration error
\* shown to the user.
C14_Witness ==
    /\ ~configOK
    /\ pc = "done"
    /\ Len(file) >= 1
    /\ msgBox = <<[icon |-> "critical", msg |-> Str(ConfigError)]>>

\* ------------------------------------------------------------------ C16
\* C16: every batch yielded, queued or inserted has at least one column and
\* one row; a batch without rows or columns is skipped, and the generator
\* goes on to the end of the file, yielding every admitted row behind it.
C16_NoEmptyBatch ==
    /\ \A i \in DOMAIN yielded :
          yielded[i].cols # <<>> /\ yielded[i].rows # <<>>
    /\ \A i \in DOMAIN queue : queue[i].cols # <<>> /\ queue[i].rows # <<>>
    /\ \A i \in DOMAIN calls : calls[i].rows # <<>>
    /\ \A w \in Workers : Busy(w) => wstate[w].batch.rows # <<>>
    /\ Len(yielded) = Cardinality({i \in DOMAIN rawBatches :
                          /\ columns # <<>>
                          /\ \E r \in RowsOf(rawBatches[i]) : file[r] = "ok"})
    /\ exhausted => filePos = Len(file) + 1

\* A batch whose rows were all dropped has been skipped and a later batch
\* has been yielded and inserted.
C16_Witness ==
    /\ \E i, j \in DOMAIN rawBatches :
          /\ i < j
          /\ \A r \in RowsOf(rawBatches[i]) : file[r] = "reject"
          /\ \E r \in RowsOf(rawBatches[j]) : file[r] = "ok"
    /\ calls # <<>>

\* ------------------------------------------------------------------ C11
ColOf(r) == Head(tbl[r].label)
HasBoth(r) == tbl[r].csv_cols # <<>> /\ Strip(tbl[r].const) # <<>>
PositionsOf(c) == {i \in DOMAIN previewOut.cols : previewOut.cols[i] = c}

\* C11: for a row of the table with checked csv columns and a static text,
\* the column appears once in the output columns and every output row holds
\* the stripped static text there, whatever the source values are.
C11_StaticWins ==
    previewOut.shown =>
        \A r \in DOMAIN tbl : HasBoth(r) =>
            /\ Cardinality(PositionsOf(ColOf(r))) = 1
            /\ \A i \in PositionsOf(ColOf(r)) :
                  \A n \in DOMAIN previewOut.data :
                      previewOut.data[n][i] = Strip(tbl[r].const)

\* A column with two checked csv columns and a static text has been
\* previewed on two rows whose source values differ from each other and from
\* the static text.
C11_Witness ==
    /\ previewOut.shown
    /\ Len(previewOut.batch) = 2
    /\ \E r \in DOMAIN tbl :
          /\ HasBoth(r)
          /\ Len(tbl[r].csv_cols) = 2
          /\ previewOut.batch[1]["c1"] # previewOut.batch[2]["c1"]
          /\ previewOut.batch[1]["c1"] # Strip(tbl[r].const)

\* ------------------------------------------------------------------ C12
MappedRows == SelectSeq(Positions(Len(tbl)),
                        LAMBDA r : tbl[r].csv_cols # <<>>)
OverrideOnlyRows == SelectSeq(Positions(Len(tbl)),
                        LAMBDA r : tbl[r].csv_cols = <<>>
                                   /\ Strip(tbl[r].const) # <<>>)
ExpectedColumns ==
    [i \in DOMAIN MappedRows |-> ColOf(MappedRows[i])]
        \o [i \in DOMAIN OverrideOnlyRows |-> ColOf(OverrideOnlyRows[i])]

\* C12: whatever the batch, the output columns are the mapped columns in the
\* order of the table followed by the override-only columns, every input
\* row gives one output row, and every output row has one value per column.
C12_ColumnOrder ==
    previewOut.shown =>
        /\ previewOut.cols = ExpectedColumns
        /\ Len(previewOut.data) = Len(previewOut.batch)
        /\ \A n \in DOMAIN previewOut.data :
              Len(previewOut.data[n]) = Len(previewOut.cols)

\* An override-only column stands before a mapped column in the table and
\* after it in the output of a batch of two rows.
C12_Witness ==
    /\ previewOut.shown
    /\ Len(previewOut.data) = 2
    /\ Len(previewOut.cols) = 2
    /\ tbl[1].csv_cols = <<>>
    /\ previewOut.cols[2] = ColOf(1)

\* ------------------------------------------------------------------ C15
\* C15: the delimiter a CsvStream is constructed with is exactly one
\* character.
C15_SingleChar == reader.opened => Len(reader.delimiter) = 1

====
